---- MODULE Spec2Model ----
(***************************************************************************)
(* A model of the JSON-to-JSON transformer (src/src/lib.rs and             *)
(* src/src/transformer.rs).                                                *)
(*                                                                         *)
(* Strings are sequences of one-character strings, so that the prefix,     *)
(* suffix, substring and split operations of the code are computed and     *)
(* not assumed.  A JSON value is a pair <<tag, payload>>:                  *)
(*   <<"null", <<>>>>                                                      *)
(*   <<"n", a natural number>>                                             *)
(*   <<"s", a string>>                                                     *)
(*   <<"a", a sequence of values>>                                         *)
(*   <<"o", a sequence of <<key, value>> pairs>>, keys distinct; the       *)
(*          sequence order is the map's iteration order                    *)
(***************************************************************************)
EXTENDS Integers, Sequences, FiniteSets, TLC

VARIABLES
    input,      \* transform: the input document
    template,   \* transform: the template (`output` argument)
    pc,         \* transform: position in lib.rs `transform`
    idx,        \* transform: index of the template entry being processed
    cur,        \* transform: the entry `obj` being mutated
    result,     \* transform: the `result` vector
    ret,        \* transform: the returned Result ([ok, v, err])
    visited,    \* transform: the visited stack after the last walk
    array_lens, \* transform: the array-length stack after the last walk
    lnode,      \* leaf resolution: the template leaf
    ldoc,       \* leaf resolution: the input document
    lpc,        \* leaf resolution: position in traverse_mut / resolve
    ltoks,      \* leaf resolution: remaining path tokens
    lcur,       \* leaf resolution: current input subtree
    lret,       \* leaf resolution: the Result of the leaf ([ok, v, err])
    llog,       \* leaf resolution: segments consumed so far, with the subtree each met
    ltr,        \* leaf resolution: transform of the one-leaf template on ldoc
    kkey,       \* clean_key: the key under test
    kpc,        \* clean_key: position of the two applications of clean_key
    kout1,      \* clean_key: clean_key(kkey)
    kout2       \* clean_key: clean_key(clean_key(kkey))

tvars == <<input, template, pc, idx, cur, result, ret, visited, array_lens>>
lvars == <<lnode, ldoc, lpc, ltoks, lcur, lret, llog, ltr>>
kvars == <<kkey, kpc, kout1, kout2>>
vars == <<tvars, lvars, kvars>>

-----------------------------------------------------------------------------
(* Bounds of the model *)

\* longest array in an input document
MaxLen == 3
\* longest template assembled from the small entry pool
MaxEntries == 2
\* longest key drawn for clean_key
MaxKeyLen == 7
\* longest outer array of the resolver documents
MaxOuter == 2
\* longest inner array of the resolver documents
MaxInner == 2

-----------------------------------------------------------------------------
(* Strings *)

\* the characters of the model in byte order
Alphabet ==
    << "'", "+", ".", "/", "0", "1", "2", "3", "4", "5", "6", "7", "8", "9",
       "[", "]", "_", "a", "b", "c", "d", "i", "j", "k", "n", "o", "p", "q",
       "r", "s", "u", "w", "x", "y", "z" >>

Rank(c) == CHOOSE i \in 1..Len(Alphabet) : Alphabet[i] = c

Digits == << "0", "1", "2", "3", "4", "5", "6", "7", "8", "9" >>

IsDigit(c) == \E i \in 1..10 : Digits[i] = c

DigitVal(c) == (CHOOSE i \in 1..10 : Digits[i] = c) - 1

\* str::starts_with
StartsWith(s, p) == Len(s) >= Len(p) /\ SubSeq(s, 1, Len(p)) = p

\* str::ends_with
EndsWith(s, p) == Len(s) >= Len(p) /\ SubSeq(s, Len(s) - Len(p) + 1, Len(s)) = p

\* position of the first occurrence of p in s, 0 when there is none
FindFirst(s, p) ==
    LET hits == { i \in 1..(Len(s) - Len(p) + 1) : SubSeq(s, i, i + Len(p) - 1) = p }
    IN  IF hits = {} THEN 0 ELSE CHOOSE i \in hits : \A j \in hits : i <= j

\* str::contains
Contains(s, p) == FindFirst(s, p) # 0

\* str::split_once: [ok, before, after]
SplitOnce(s, p) ==
    LET i == FindFirst(s, p)
    IN  IF i = 0
        THEN [ok |-> FALSE, before |-> <<>>, after |-> <<>>]
        ELSE [ok |-> TRUE, before |-> SubSeq(s, 1, i - 1),
              after |-> SubSeq(s, i + Len(p), Len(s))]

RECURSIVE SplitFrom(_, _, _)
SplitFrom(s, i, acc) ==
    IF i > Len(s) THEN <<acc>>
    ELSE IF s[i] = "/" THEN <<acc>> \o SplitFrom(s, i + 1, <<>>)
    ELSE SplitFrom(s, i + 1, Append(acc, s[i]))

\* str::split('/'): the pieces between slashes, "" giving one empty piece
Split(s) == SplitFrom(s, 1, <<>>)

\* String::replace('\'', "")
RemoveQuotes(s) == SelectSeq(s, LAMBDA c : c # "'")

\* usize::to_string
RECURSIVE UsizeToString(_)
UsizeToString(n) ==
    IF n < 10 THEN <<Digits[n + 1]>>
    ELSE UsizeToString(n \div 10) \o <<Digits[(n % 10) + 1]>>

RECURSIVE ParseDigits(_, _)
ParseDigits(s, acc) ==
    IF s = <<>> THEN acc ELSE ParseDigits(Tail(s), acc * 10 + DigitVal(Head(s)))

\* serde_json parse_index: [ok, v]
ParseIndex(s) ==
    IF \/ s = <<>>
       \/ StartsWith(s, <<"+">>)
       \/ (StartsWith(s, <<"0">>) /\ Len(s) # 1)
       \/ \E i \in 1..Len(s) : ~IsDigit(s[i])
    THEN [ok |-> FALSE, v |-> 0]
    ELSE [ok |-> TRUE, v |-> ParseDigits(s, 0)]

RECURSIVE LexLess(_, _)
\* byte-wise order of two strings
LexLess(a, b) ==
    IF a = <<>> THEN b # <<>>
    ELSE IF b = <<>> THEN FALSE
    ELSE IF Head(a) = Head(b) THEN LexLess(Tail(a), Tail(b))
    ELSE Rank(Head(a)) < Rank(Head(b))

-----------------------------------------------------------------------------
(* The value model (serde_json::Value) *)

Null == <<"null", <<>>>>
Num(n) == <<"n", n>>
Str(s) == <<"s", s>>
Arr(a) == <<"a", a>>
Obj(o) == <<"o", o>>

IsObj(x) == x[1] = "o"
IsArr(x) == x[1] = "a"
IsStr(x) == x[1] = "s"

\* position of key k in the pairs o, 0 when absent
KeyPos(o, k) ==
    IF \E i \in 1..Len(o) : o[i][1] = k
    THEN CHOOSE i \in 1..Len(o) : o[i][1] = k
    ELSE 0

HasKey(o, k) == KeyPos(o, k) # 0

\* Map::get on a key known to be present
MapGet(o, k) == o[KeyPos(o, k)][2]

\* Value::get(&str): [ok, v]; None unless an object holding the key
ValueGet(x, k) ==
    IF IsObj(x) /\ HasKey(x[2], k)
    THEN [ok |-> TRUE, v |-> MapGet(x[2], k)]
    ELSE [ok |-> FALSE, v |-> Null]

\* Map::remove
MapRemove(o, k) == SelectSeq(o, LAMBDA p : p[1] # k)

\* Map::insert into a map kept in key order: an existing key keeps its place
MapInsert(o, k, x) ==
    IF HasKey(o, k)
    THEN [i \in 1..Len(o) |-> IF o[i][1] = k THEN <<k, x>> ELSE o[i]]
    ELSE LET lower == SelectSeq(o, LAMBDA p : LexLess(p[1], k))
             upper == SelectSeq(o, LAMBDA p : LexLess(k, p[1]))
         IN  lower \o << <<k, x>> >> \o upper

RECURSIVE SortPairs(_)
SortPairs(o) ==
    IF o = <<>> THEN <<>>
    ELSE MapInsert(SortPairs(Tail(o)), Head(o)[1], Head(o)[2])

RECURSIVE Canon(_)
\* The same value with every object in key order.  Map equality ignores the
\* iteration order, so values are compared in this form.
Canon(x) ==
    IF IsObj(x)
    THEN Obj(SortPairs([i \in 1..Len(x[2]) |-> <<x[2][i][1], Canon(x[2][i][2])>>]))
    ELSE IF IsArr(x) THEN Arr([i \in 1..Len(x[2]) |-> Canon(x[2][i])])
    ELSE x

RECURSIVE PointerGetToks(_, _)
PointerGetToks(x, toks) ==
    IF toks = <<>> THEN [ok |-> TRUE, v |-> x]
    ELSE IF IsObj(x)
    THEN IF HasKey(x[2], Head(toks))
         THEN PointerGetToks(MapGet(x[2], Head(toks)), Tail(toks))
         ELSE [ok |-> FALSE, v |-> Null]
    ELSE IF IsArr(x)
    THEN LET ix == ParseIndex(Head(toks))
         IN  IF ix.ok /\ ix.v < Len(x[2])
             THEN PointerGetToks(x[2][ix.v + 1], Tail(toks))
             ELSE [ok |-> FALSE, v |-> Null]
    ELSE [ok |-> FALSE, v |-> Null]

\* Value::pointer: [ok, v].  No key of the model holds "~", so the ~0 / ~1
\* unescaping is the identity here.
Pointer(x, p) ==
    IF p = <<>> THEN [ok |-> TRUE, v |-> x]
    ELSE IF ~StartsWith(p, <<"/">>) THEN [ok |-> FALSE, v |-> Null]
    ELSE PointerGetToks(x, Tail(Split(p)))

RECURSIVE PointerSetToks(_, _, _)
PointerSetToks(x, toks, new) ==
    IF toks = <<>> THEN new
    ELSE IF IsObj(x)
    THEN LET i == KeyPos(x[2], Head(toks))
         IN  Obj([x[2] EXCEPT ![i] = <<@[1], PointerSetToks(@[2], Tail(toks), new)>>])
    ELSE LET j == ParseIndex(Head(toks)).v + 1
         IN  Arr([x[2] EXCEPT ![j] = PointerSetToks(@, Tail(toks), new)])

\* *x.pointer_mut(p)? = new: [ok, v], ok exactly when Pointer(x, p) is
PointerSet(x, p, new) ==
    IF ~Pointer(x, p).ok THEN [ok |-> FALSE, v |-> x]
    ELSE IF p = <<>> THEN [ok |-> TRUE, v |-> new]
    ELSE [ok |-> TRUE, v |-> PointerSetToks(x, Tail(Split(p)), new)]

-----------------------------------------------------------------------------
(* Errors.  An error is a record [kind, name]; the pretty-printed object   *)
(* that some messages append is not modelled.                              *)

NoErr == [kind |-> "none", name |-> <<>>]
Err(kind, name) == [kind |-> kind, name |-> name]

\* Result<T>: [ok, v, err]
Ok(x) == [ok |-> TRUE, v |-> x, err |-> NoErr]
Fail(kind, name) == [ok |-> FALSE, v |-> Null, err |-> Err(kind, name)]

-----------------------------------------------------------------------------
(* Decoration parser (transformer.rs 5-72) *)

is_obj_to_be_converted_to_array(obj_name) ==
    StartsWith(obj_name, <<"[">>) /\ EndsWith(obj_name, <<"]">>)

is_to_be_spread_array(array_name) == Contains(array_name, <<".", ".", ".">>)

\* strip_prefix('[') then strip_suffix(']').unwrap_or(key); None without the prefix
StripBrackets(key) ==
    IF ~StartsWith(key, <<"[">>) THEN Fail("MalformedKey", key)
    ELSE LET s == Tail(key)
         IN  IF EndsWith(s, <<"]">>) THEN Ok(SubSeq(s, 1, Len(s) - 1)) ELSE Ok(key)

\* key.strip_prefix("...").unwrap_or(key)
StripDots(key) ==
    IF StartsWith(key, <<".", ".", ".">>) THEN SubSeq(key, 4, Len(key)) ELSE key

\* Result<&str>: the second test reads `key`, not the bracket-stripped key
clean_key(key) ==
    LET first == IF is_obj_to_be_converted_to_array(key) THEN StripBrackets(key) ELSE Ok(key)
    IN  IF ~first.ok THEN first
        ELSE IF is_to_be_spread_array(key) THEN Ok(StripDots(key))
        ELSE first

RECURSIVE CleanFold(_, _)
\* the try_fold of clean_path over the segments
CleanFold(segs, xpath) ==
    IF segs = <<>> THEN Ok(xpath)
    ELSE LET key == Head(segs)
             cleaned == IF is_obj_to_be_converted_to_array(key) \/ is_to_be_spread_array(key)
                        THEN clean_key(key) ELSE Ok(key)
         IN  IF ~cleaned.ok THEN cleaned
             ELSE CleanFold(Tail(segs), xpath \o <<"/">> \o cleaned.v)

clean_path(path) ==
    IF path = <<>> THEN Ok(<<>>)
    ELSE LET pieces == Split(path)
             segs == IF pieces[1] = <<>> THEN Tail(pieces) ELSE pieces
             folded == CleanFold(segs, <<>>)
         IN  IF ~folded.ok THEN folded
             ELSE IF folded.v = <<>> THEN clean_key(path)
             ELSE folded

format_key(xpath, key) ==
    IF key = <<>> THEN xpath
    ELSE IF xpath = <<>> THEN <<"/">> \o key
    ELSE xpath \o <<"/">> \o key

-----------------------------------------------------------------------------
(* Value resolver (transformer.rs 114-154) *)

RECURSIVE CollectNoFlatten(_, _, _)
\* Collect pushing every per-element value, arrays included
CollectNoFlatten(elems, field_name, acc) ==
    IF elems = <<>> THEN Ok(Arr(acc))
    ELSE LET got == ValueGet(Head(elems), field_name)
         IN  IF ~got.ok THEN Fail("FieldNotFound", field_name)
             ELSE CollectNoFlatten(Tail(elems), field_name, Append(acc, got.v))

RECURSIVE Collect(_, _, _)
\* the loop over the elements of an array: Result holding the flattened vector
Collect(elems, field_name, acc) ==
    IF elems = <<>> THEN Ok(Arr(acc))
    ELSE LET got == ValueGet(Head(elems), field_name)
         IN  IF ~got.ok THEN Fail("FieldNotFound", field_name)
             ELSE IF IsArr(got.v)
             THEN Collect(Tail(elems), field_name, acc \o got.v[2])
             ELSE Collect(Tail(elems), field_name, Append(acc, got.v))

\* ResolveOne reading an absent key of an object as null
ResolveOneLenient(node, field_name) ==
    IF IsArr(node)
    THEN LET c == Collect(node[2], field_name, <<>>)
         IN  IF c.ok THEN [kind |-> "next", v |-> c.v, err |-> NoErr]
             ELSE [kind |-> "err", v |-> Null, err |-> c.err]
    ELSE IF IsObj(node)
    THEN [kind |-> "next", v |-> ValueGet(node, field_name).v, err |-> NoErr]
    ELSE [kind |-> "ret", v |-> node, err |-> NoErr]

\* One call of resolve_output_field_value that popped field_name:
\* [kind, v, err], kind "next" (recurse into v), "ret" (return v) or "err"
ResolveOne(node, field_name) ==
    IF IsArr(node)
    THEN LET c == Collect(node[2], field_name, <<>>)
         IN  IF c.ok THEN [kind |-> "next", v |-> c.v, err |-> NoErr]
             ELSE [kind |-> "err", v |-> Null, err |-> c.err]
    ELSE IF IsObj(node)
    THEN LET got == ValueGet(node, field_name)
         IN  IF got.ok THEN [kind |-> "next", v |-> got.v, err |-> NoErr]
             ELSE [kind |-> "err", v |-> Null, err |-> Err("FieldNotFound", field_name)]
    ELSE [kind |-> "ret", v |-> node, err |-> NoErr]

RECURSIVE resolve_output_field_value(_, _)
resolve_output_field_value(path_tokens, node) ==
    IF path_tokens = <<>> THEN Ok(node)
    ELSE LET r == ResolveOne(node, Head(path_tokens))
         IN  IF r.kind = "err" THEN [ok |-> FALSE, v |-> Null, err |-> r.err]
             ELSE IF r.kind = "ret" THEN Ok(r.v)
             ELSE resolve_output_field_value(Tail(path_tokens), r.v)

-----------------------------------------------------------------------------
(* Substitution engine (transformer.rs 76-110) *)

\* the hard-coded value test of a leaf string
IsLiteral(s) == StartsWith(s, <<"'">>) /\ EndsWith(s, <<"'">>)

\* LiteralValue removing only the enclosing quotes
LiteralValueEnds(s) == Str(SubSeq(s, 2, Len(s) - 1))

\* the value a hard-coded leaf is replaced by
LiteralValue(s) == Str(RemoveQuotes(s))

\* split('/') with the first piece drained
PathTokens(s) == Tail(Split(s))

\* SubstLeaf keeping a leaf that is not a string as it is
SubstLeafLenient(doc, leaf) ==
    IF ~IsStr(leaf) THEN Ok(leaf)
    ELSE IF IsLiteral(leaf[2]) THEN Ok(LiteralValue(leaf[2]))
    ELSE resolve_output_field_value(PathTokens(leaf[2]), doc)

\* the leaf branch of traverse_mut
SubstLeaf(doc, leaf) ==
    IF ~IsStr(leaf) THEN Fail("MalformedTemplate", <<>>)
    ELSE IF IsLiteral(leaf[2]) THEN Ok(LiteralValue(leaf[2]))
    ELSE resolve_output_field_value(PathTokens(leaf[2]), doc)

RECURSIVE traverse_mut(_, _)
RECURSIVE TraverseKids(_, _, _)
\* the loop over tree.iter_mut(): the first failure returns
TraverseKids(doc, kids, done) ==
    IF kids = <<>> THEN Ok(Obj(done))
    ELSE LET r == traverse_mut(doc, Head(kids)[2])
         IN  IF ~r.ok THEN r
             ELSE TraverseKids(doc, Tail(kids), Append(done, <<Head(kids)[1], r.v>>))

\* Result holding the substituted node; xpath and key are only passed along
traverse_mut(doc, node) ==
    IF IsObj(node) THEN TraverseKids(doc, node[2], <<>>)
    ELSE SubstLeaf(doc, node)

-----------------------------------------------------------------------------
(* Array-conversion engine (transformer.rs 157-303).  The walk threads a   *)
(* record st = [ok, out, vis, lens, err]: the live output tree, the        *)
(* visited stack, the array-length stack and the error that stopped it.    *)

WalkFail(st, kind, name) == [st EXCEPT !.ok = FALSE, !.err = Err(kind, name)]

\* insert the cleaned key with the decorated key's value, then remove the
\* decorated key (183-187, 219-229)
RenameKey(parent, key, cleaned) == MapRemove(MapInsert(parent, cleaned, MapGet(parent, key)), key)

\* the parent object located at path cp, with `key` renamed to ck, stored back
Renamed(out, parent, cp, key, ck) ==
    PointerSet(out, cp, Obj(RenameKey(parent[2], key, ck))).v

\* 169-187 once clean_path(xpath) = cp and clean_key(key) = ck are known and
\* the path is pushed: find the parent object, rename the key in it
ConvRename(pushed, parent, cp, key, ck) ==
    IF ~parent.ok THEN WalkFail(pushed, "ParentNotFound", key)
    ELSE IF ~IsObj(parent.v) THEN WalkFail(pushed, "ParentNotObject", key)
    ELSE IF ~HasKey(parent.v[2], key) THEN WalkFail(pushed, "KeyNotFound", key)
    ELSE [pushed EXCEPT !.out = Renamed(pushed.out, parent.v, cp, key, ck)]

ConvEnterAt(st, cp, key, ck) ==
    IF ~cp.ok \/ ~ck.ok THEN WalkFail(st, "MalformedKey", key)
    ELSE ConvRename([st EXCEPT !.vis = Append(@, format_key(cp.v, ck.v))],
                    Pointer(st.out, cp.v), cp.v, key, ck.v)

\* 167-188: push the object's cleaned path, rename its key in the parent
ConvEnter(st, xpath, key) == ConvEnterAt(st, clean_path(xpath), key, clean_key(key))

\* SpreadRename removing the decorated key before it reads its value
SpreadRenameDropped(node, st, parent, cp, key, ck) ==
    IF ~parent.ok THEN WalkFail(st, "ParentNotFound", key)
    ELSE IF ~IsObj(parent.v) THEN WalkFail(st, "ParentNotObject", key)
    ELSE IF ~HasKey(parent.v[2], key) THEN WalkFail(st, "KeyNotFound", key)
    ELSE [st EXCEPT !.out = PointerSet(st.out, cp, Obj(MapRemove(parent.v[2], key))).v,
                    !.lens = IF IsArr(node) THEN Append(@, Len(node[2])) ELSE @,
                    !.vis = Append(@, format_key(cp, ck))]

\* 214-245 once the parent is located: rename the spread key, push the
\* array's length, push the path
SpreadRename(node, st, parent, cp, key, ck) ==
    IF ~parent.ok THEN WalkFail(st, "ParentNotFound", key)
    ELSE IF ~IsObj(parent.v) THEN WalkFail(st, "ParentNotObject", key)
    ELSE IF ~HasKey(parent.v[2], key) THEN WalkFail(st, "KeyNotFound", key)
    ELSE [st EXCEPT !.out = Renamed(st.out, parent.v, cp, key, ck),
                    !.lens = IF IsArr(node) THEN Append(@, Len(node[2])) ELSE @,
                    !.vis = Append(@, format_key(cp, ck))]

SpreadLeafAt(node, st, cp, key, ck) ==
    IF ~cp.ok \/ ~ck.ok THEN WalkFail(st, "MalformedKey", key)
    ELSE SpreadRename(node, st, Pointer(st.out, cp.v), cp.v, key, ck.v)

\* 213-245: a leaf under a spread key
SpreadLeaf(node, st, xpath, key) ==
    SpreadLeafAt(node, st, clean_path(xpath), key, clean_key(key))

\* 283: output.pointer(&path).unwrap_or(&Value::Null)
ElementOrNull(got) == IF got.ok THEN got.v ELSE Null

RECURSIVE FillCopiesOneBased(_, _, _, _, _)
\* FillCopies reading element i + 1 of the spread array for copy i
FillCopiesOneBased(out, copies, i, path_to_spread_array, rel) ==
    IF i > Len(copies) THEN [ok |-> TRUE, v |-> copies]
    ELSE IF ~Pointer(copies[i], rel).ok THEN [ok |-> FALSE, v |-> copies]
    ELSE FillCopiesOneBased(out,
                    [copies EXCEPT ![i] =
                        PointerSet(@, rel,
                                   ElementOrNull(Pointer(out, format_key(path_to_spread_array,
                                                                         UsizeToString(i))))).v],
                    i + 1, path_to_spread_array, rel)

RECURSIVE FillCopies(_, _, _, _, _)
\* 281-292: copy i receives element i of the array at path_to_spread_array
\* (null when there is none) at the relative path; [ok, v]
FillCopies(out, copies, i, path_to_spread_array, rel) ==
    IF i > Len(copies) THEN [ok |-> TRUE, v |-> copies]
    ELSE IF ~Pointer(copies[i], rel).ok THEN [ok |-> FALSE, v |-> copies]
    ELSE FillCopies(out,
                    [copies EXCEPT ![i] =
                        PointerSet(@, rel,
                                   ElementOrNull(Pointer(out, format_key(path_to_spread_array,
                                                                         UsizeToString(i - 1))))).v],
                    i + 1, path_to_spread_array, rel)

\* 276-280: the path of the spread array inside a copy: what follows the
\* first occurrence of the object's name in the popped path
RelativePath(path_to_spread_array, parent_obj_name) ==
    SplitOnce(path_to_spread_array, parent_obj_name)

\* the stack without its last element
Popped(stack) == SubSeq(stack, 1, Len(stack) - 1)

\* the last element of a stack
Top(stack) == stack[Len(stack)]

\* 298-301: the object at the parent path is replaced by the copies
StoreCopies(st, set, parent_obj_name) ==
    IF ~set.ok THEN WalkFail(st, "ParentNotFound", parent_obj_name)
    ELSE [st EXCEPT !.out = set.v]

RECURSIVE SplitLoop(_, _, _, _, _)
RECURSIVE SplitBody(_, _, _, _, _, _)
RECURSIVE SplitPop(_, _, _, _)
\* 274-302: the while loop and the final store
SplitLoop(st, copies, path_to_spread_array, path_to_array_parent_obj, parent_obj_name) ==
    IF path_to_spread_array = path_to_array_parent_obj
    THEN StoreCopies(st, PointerSet(st.out, path_to_array_parent_obj, Arr(copies)),
                     parent_obj_name)
    ELSE SplitBody(st, copies, path_to_spread_array,
                   RelativePath(path_to_spread_array, parent_obj_name),
                   path_to_array_parent_obj, parent_obj_name)

\* 276-292: the relative path, then the loop over the copies
SplitBody(st, copies, path_to_spread_array, rel, path_to_array_parent_obj, parent_obj_name) ==
    IF ~rel.ok THEN WalkFail(st, "SplitNoPath", parent_obj_name)
    ELSE SplitPop(st, FillCopies(st.out, copies, 1, path_to_spread_array, rel.after),
                  path_to_array_parent_obj, parent_obj_name)

\* 294-296: the next path of the visited stack
SplitPop(st, filled, path_to_array_parent_obj, parent_obj_name) ==
    IF ~filled.ok THEN WalkFail(st, "SplitPathMismatch", parent_obj_name)
    ELSE IF st.vis = <<>> THEN WalkFail(st, "SplitStackEmpty", parent_obj_name)
    ELSE SplitLoop([st EXCEPT !.vis = Popped(@)], filled.v, Top(st.vis),
                   path_to_array_parent_obj, parent_obj_name)

\* 264-272: array_len clones of the object at the parent path
SplitStart(popped, base, array_len, path_to_spread_array, path_to_array_parent_obj, parent_obj_name) ==
    IF ~base.ok THEN WalkFail(popped, "SplitNoPath", parent_obj_name)
    ELSE SplitLoop(popped, [i \in 1..array_len |-> base.v], path_to_spread_array,
                   path_to_array_parent_obj, parent_obj_name)

split_obj_to_array(st, array_len, path_to_array_parent_obj, parent_obj_name) ==
    IF st.vis = <<>> THEN WalkFail(st, "SplitNoPath", parent_obj_name)
    ELSE SplitStart([st EXCEPT !.vis = Popped(@)], Pointer(st.out, path_to_array_parent_obj),
                    array_len, Top(st.vis), path_to_array_parent_obj, parent_obj_name)

\* the length the split of an object uses: the top of the array-length stack
PoppedLen(lens) == Top(lens)

ConvLeaveAt(st, array_len, cp, key, ck) ==
    IF ~cp.ok \/ ~ck.ok THEN WalkFail(st, "MalformedKey", key)
    ELSE split_obj_to_array(st, array_len, cp.v, ck.v)

\* ConvLeave reading the last length without popping it
ConvLeaveKeepLen(st, xpath, key) ==
    IF ~st.ok THEN st
    ELSE IF st.lens = <<>> THEN WalkFail(st, "MissingSpreadArray", key)
    ELSE ConvLeaveAt(st, PoppedLen(st.lens),
                     clean_path(format_key(xpath, key)), key, clean_key(key))

\* 201-210: pop a length, split the object at its cleaned path
ConvLeave(st, xpath, key) ==
    IF ~st.ok THEN st
    ELSE IF st.lens = <<>> THEN WalkFail(st, "MissingSpreadArray", key)
    ELSE ConvLeaveAt([st EXCEPT !.lens = Popped(@)], PoppedLen(st.lens),
                     clean_path(format_key(xpath, key)), key, clean_key(key))

RECURSIVE process_array_convertible_objs(_, _, _, _)
RECURSIVE WalkKids(_, _, _)
\* 190-199: the loop over tree.iter(): the first failure returns
WalkKids(kids, st, xpath) ==
    IF kids = <<>> \/ ~st.ok THEN st
    ELSE WalkKids(Tail(kids),
                  process_array_convertible_objs(Head(kids)[2], st, xpath, Head(kids)[1]),
                  xpath)

\* node is the snapshot (`input`), st.out the live `output`
process_array_convertible_objs(node, st, xpath, key) ==
    IF IsObj(node)
    THEN IF is_obj_to_be_converted_to_array(key)
         THEN ConvLeave(WalkKids(node[2], ConvEnter(st, xpath, key), format_key(xpath, key)),
                        xpath, key)
         ELSE WalkKids(node[2], st, format_key(xpath, key))
    ELSE IF is_to_be_spread_array(key) THEN SpreadLeaf(node, st, xpath, key)
    ELSE st

\* the walk of one template entry as transform starts it (lib.rs 343-350)
WalkEntry(obj) ==
    process_array_convertible_objs(
        obj,
        [ok |-> TRUE, out |-> Canon(obj), vis |-> <<>>, lens |-> <<>>, err |-> NoErr],
        <<>>, <<>>)

-----------------------------------------------------------------------------
(* Orchestrator (lib.rs 314-356) *)

\* CheckEntryRes letting an object without keys through
CheckEntryResNoName(obj) ==
    IF ~IsObj(obj) THEN Fail("ElementNotObject", <<>>) ELSE Ok(obj)

\* 329-341: the element must be an object with a first key
CheckEntryRes(obj) ==
    IF ~IsObj(obj) THEN Fail("ElementNotObject", <<>>)
    ELSE IF obj[2] = <<>> THEN Fail("ElementNoName", <<>>)
    ELSE Ok(obj)

\* 329-352: one iteration of the loop: Result holding the value pushed
ProcessEntry(doc, obj) ==
    LET checked == CheckEntryRes(obj)
    IN  IF ~checked.ok THEN checked
        ELSE LET substituted == traverse_mut(doc, obj)
             IN  IF ~substituted.ok THEN substituted
                 ELSE LET walked == WalkEntry(substituted.v)
                      IN  IF ~walked.ok THEN [ok |-> FALSE, v |-> Null, err |-> walked.err]
                          ELSE Ok(walked.out)

\* push at the front of the vector
PushFront(vec, x) == <<x>> \o vec

\* 352: Vec::push
PushBack(vec, x) == Append(vec, x)

RECURSIVE TransformLoop(_, _, _)
\* 324-353: the loop over the elements of the template
TransformLoop(doc, entries, acc) ==
    IF entries = <<>> THEN Ok(Arr(acc))
    ELSE LET r == ProcessEntry(doc, Head(entries))
         IN  IF ~r.ok THEN r ELSE TransformLoop(doc, Tail(entries), PushBack(acc, r.v))

\* transform as a function of its two arguments
transform(doc, tmpl) ==
    IF ~IsArr(tmpl) THEN Fail("OutputNotArray", <<>>)
    ELSE TransformLoop(doc, tmpl[2], <<>>)

-----------------------------------------------------------------------------
(* Keys, leaves and documents the specifications draw from *)

kR == <<"r">>
kW == <<"w">>
kD == <<"d">>
kX == <<"x">>
kY == <<"y">>
kSubR == <<"s", "u", "b", "_", "r">>
kConvR == <<"[", "r", "]">>
kConvD == <<"[", "d", "]">>
kSpreadX == <<".", ".", ".", "x">>
kSpreadY == <<".", ".", ".", "y">>
kSpreadS == <<".", ".", ".", "s">>
kIds == <<"i", "d", "s">>
kJds == <<"j", "d", "s">>
kSds == <<"s", "d", "s">>
kId == <<"i", "d">>

lIds == Str(<<"/">> \o kIds)
lJds == Str(<<"/">> \o kJds)
lSds == Str(<<"/">> \o kSds)
lId == Str(<<"/">> \o kId)
lNope == Str(<<"/", "n", "o", "p", "e">>)
lZ == Str(<<"'", "z", "'">>)
lQ == Str(<<"'", "q", "'">>)
lFive == Num(5)

\* the characters the array elements of the documents are made of
ElemChars == <<"a", "b", "c", "d", "i", "j", "k", "n">>

\* {"ids": [n strings]}: the document of the end-to-end scenarios
IdsDoc(n) == Obj(<< <<kIds, Arr([i \in 1..n |-> Str(<<ElemChars[i]>>)])>> >>)

\* ids and jds of length n, sds one longer, id a scalar
RichDoc(n) ==
    Obj(<< <<kId, Str(<<"7">>)>>,
           <<kIds, Arr([i \in 1..n |-> Str(<<ElemChars[i]>>)])>>,
           <<kJds, Arr([i \in 1..n |-> Str(<<"p", ElemChars[i]>>)])>>,
           <<kSds, Arr([i \in 1..(n + 1) |-> Str(<<"s", ElemChars[i]>>)])>> >>)

InputDocs == { IdsDoc(n) : n \in 0..MaxLen } \cup { RichDoc(n) : n \in 0..MaxLen }

O1(k, x) == Obj(<< <<k, x>> >>)
O2(k1, x1, k2, x2) == Obj(<< <<k1, x1>>, <<k2, x2>> >>)

\* the fields the bodies of the template entries are assembled from
Fields ==
    { <<kSpreadX, lIds>>, <<kSpreadY, lJds>>, <<kSpreadY, lSds>>, <<kSpreadS, lId>>,
      <<kY, lZ>>, <<kX, lIds>>, <<kX, lNope>>, <<kX, lFive>>,
      <<kR, O1(kX, lQ)>>, <<kR, O2(kX, lQ, kY, lQ)>>,
      <<kD, O1(kSpreadX, lIds)>>,
      <<kConvD, O1(kSpreadX, lIds)>>, <<kConvD, O1(kY, lQ)>>,
      <<kConvD, O2(kSpreadX, lIds, kSpreadY, lJds)>>,
      <<kY, Arr(<<lZ>>)>> }

\* objects of one field, or of two fields with distinct keys.  The keys are
\* in byte order, the iteration order of a map either way the crate is built
\* (sorted, or insertion order of a document written in that order).
Bodies ==
    { Obj(<<f>>) : f \in Fields }
        \cup { Obj(<<fg[1], fg[2]>>) :
                   fg \in { p \in Fields \X Fields : LexLess(p[1][1], p[2][1]) } }

\* the ancestor keys a body is wrapped in, outermost first
Wrappers ==
    { <<>>, <<kW>>, <<kR>>, <<kSubR>>, <<kConvR>>,
      <<kW, kConvR>>, <<kR, kConvR>>, <<kSubR, kConvR>> }

RECURSIVE Wrap(_, _)
Wrap(keys, body) == IF keys = <<>> THEN body ELSE O1(Head(keys), Wrap(Tail(keys), body))

Entries == { Wrap(w, b) : w \in Wrappers, b \in Bodies }

\* the elements the longer templates are assembled from
SmallEntries ==
    { O1(kR, O1(kX, lIds)),
      O1(kConvR, O2(kSpreadX, lIds, kY, lZ)),
      O1(kSpreadS, lIds),
      O1(kSpreadS, O1(kX, lIds)),
      O1(kConvR, O1(kY, lZ)),
      O1(kW, O1(kY, lZ)),
      O1(kX, lNope),
      Obj(<<>>), Arr(<<>>), lFive }

Templates ==
    { Arr(<<e>>) : e \in Entries }
        \cup { Arr(s) : s \in UNION { [1..n -> SmallEntries] : n \in 0..MaxEntries } }
        \cup { Obj(<<>>), Null, O1(kR, O1(kX, lIds)) }

-----------------------------------------------------------------------------
(* Specification of transform: Init draws the two arguments, each action is *)
(* one step of lib.rs 314-356.                                             *)

NoRet == [ok |-> FALSE, v |-> Null, err |-> NoErr]

LeafIdle ==
    /\ lnode = Null /\ ldoc = Null /\ lpc = "idle" /\ ltoks = <<>>
    /\ lcur = Null /\ lret = NoRet /\ llog = <<>> /\ ltr = NoRet

KeyIdle == kkey = <<>> /\ kpc = "idle" /\ kout1 = NoRet /\ kout2 = NoRet

TransformIdle ==
    /\ input = Null /\ template = Null /\ pc = "idle" /\ idx = 0 /\ cur = Null
    /\ result = <<>> /\ ret = NoRet /\ visited = <<>> /\ array_lens = <<>>

Init ==
    /\ input \in InputDocs
    /\ template \in Templates
    /\ pc = "start" /\ idx = 0 /\ cur = Null /\ result = <<>> /\ ret = NoRet
    /\ visited = <<>> /\ array_lens = <<>>
    /\ LeafIdle /\ KeyIdle

\* 319-326: the template must be an array
Begin ==
    /\ pc = "start"
    /\ IF IsArr(template)
       THEN pc' = "loop" /\ ret' = ret
       ELSE pc' = "done" /\ ret' = Fail("OutputNotArray", <<>>)
    /\ UNCHANGED <<input, template, idx, cur, result, visited, array_lens, lvars, kvars>>

\* 324-328: the next element of the template
NextEntry ==
    /\ pc = "loop" /\ idx < Len(template[2])
    /\ idx' = idx + 1 /\ cur' = template[2][idx + 1] /\ pc' = "check"
    /\ UNCHANGED <<input, template, result, ret, visited, array_lens, lvars, kvars>>

\* 329-341
CheckEntry ==
    /\ pc = "check"
    /\ IF CheckEntryRes(cur).ok
       THEN pc' = "subst" /\ ret' = ret
       ELSE pc' = "done" /\ ret' = CheckEntryRes(cur)
    /\ UNCHANGED <<input, template, idx, cur, result, visited, array_lens, lvars, kvars>>

\* 342: traverse_mut(&input, &mut obj, "", "")?
Substitute ==
    /\ pc = "subst"
    /\ LET r == traverse_mut(input, cur)
       IN  IF r.ok
           THEN pc' = "walk" /\ cur' = r.v /\ ret' = ret
           ELSE pc' = "done" /\ cur' = cur /\ ret' = r
    /\ UNCHANGED <<input, template, idx, result, visited, array_lens, lvars, kvars>>

\* Convert with the stacks the previous entry left instead of fresh ones
ConvertShared ==
    /\ pc = "walk"
    /\ LET st == process_array_convertible_objs(
                     cur,
                     [ok |-> TRUE, out |-> Canon(cur), vis |-> visited,
                      lens |-> array_lens, err |-> NoErr],
                     <<>>, <<>>)
       IN  /\ visited' = st.vis /\ array_lens' = st.lens
           /\ IF st.ok
              THEN pc' = "push" /\ cur' = st.out /\ ret' = ret
              ELSE pc' = "done" /\ cur' = cur
                   /\ ret' = [ok |-> FALSE, v |-> Null, err |-> st.err]
    /\ UNCHANGED <<input, template, idx, result, lvars, kvars>>

\* 343-350: process_array_convertible_objs on a clone of obj, with fresh stacks
Convert ==
    /\ pc = "walk"
    /\ LET st == WalkEntry(cur)
       IN  /\ visited' = st.vis /\ array_lens' = st.lens
           /\ IF st.ok
              THEN pc' = "push" /\ cur' = st.out /\ ret' = ret
              ELSE pc' = "done" /\ cur' = cur
                   /\ ret' = [ok |-> FALSE, v |-> Null, err |-> st.err]
    /\ UNCHANGED <<input, template, idx, result, lvars, kvars>>

\* 352: result.push(obj.clone())
Push ==
    /\ pc = "push"
    /\ result' = PushBack(result, cur) /\ pc' = "loop"
    /\ UNCHANGED <<input, template, idx, cur, ret, visited, array_lens, lvars, kvars>>

\* 355: Ok(to_value(result)?)
Finish ==
    /\ pc = "loop" /\ idx = Len(template[2])
    /\ ret' = Ok(Arr(result)) /\ pc' = "done"
    /\ UNCHANGED <<input, template, idx, cur, result, visited, array_lens, lvars, kvars>>

Next == Begin \/ NextEntry \/ CheckEntry \/ Substitute \/ Convert \/ Push \/ Finish

Spec == Init /\ [][Next]_vars

-----------------------------------------------------------------------------
(* Documents and leaves of the leaf-resolution specification *)

kA == <<"a">>
kB == <<"b">>
kC == <<"c">>

\* the value stored at position j of the inner array of outer element i
CellValue(i, j) == Num(10 * i + j)

\* an element of an inner array: an object holding `c`, or one lacking it
InnerElem(kind, i, j) ==
    IF kind = "c" THEN O1(kC, CellValue(i, j)) ELSE O1(kD, CellValue(i, j))

InnerShapes == UNION { [1..m -> {"c", "d"}] : m \in 0..MaxInner }

\* an element of the outer array: an object holding the array `b`, an object
\* lacking `b`, or a number
OuterShapes ==
    { <<"hole", <<>>>>, <<"scalar", <<>>>> } \cup { <<"b", f>> : f \in InnerShapes }

OuterElem(shape, i) ==
    IF shape[1] = "hole" THEN O1(kD, Num(i))
    ELSE IF shape[1] = "scalar" THEN Num(i)
    ELSE O1(kB, Arr([j \in 1..Len(shape[2]) |-> InnerElem(shape[2][j], i, j)]))

\* {"a": [...], "id": "7"}
ResolverDoc(shapes) ==
    Obj(<< <<kA, Arr([i \in 1..Len(shapes) |-> OuterElem(shapes[i], i)])>>,
           <<kId, Str(<<"7">>)>> >>)

ResolverDocs ==
    { ResolverDoc(s) : s \in UNION { [1..n -> OuterShapes] : n \in 0..MaxOuter } }

lABC == Str(<<"/", "a", "/", "b", "/", "c">>)
lAB == Str(<<"/", "a", "/", "b">>)
lA == Str(<<"/", "a">>)
lAD == Str(<<"/", "a", "/", "d">>)
lIdX == Str(<<"/", "i", "d", "/", "x">>)
lEmpty == Str(<<>>)
lSlash == Str(<<"/">>)
lQuote == Str(<<"'">>)
lQQ == Str(<<"'", "q", "'", "q", "'">>)

LeafNodes ==
    { lABC, lAB, lA, lAD, lId, lIdX, lNope, lEmpty, lSlash,
      lZ, lQQ, lQuote, lFive, Null, Arr(<<lIds>>) }

-----------------------------------------------------------------------------
(* Specification of the resolution of one leaf: the leaf branch of         *)
(* traverse_mut (transformer.rs 84-108) and the calls of                   *)
(* resolve_output_field_value (114-154), one action per call, then the     *)
(* transform of the template [{"x": leaf}].                                *)

InitLeaf ==
    /\ lnode \in LeafNodes
    /\ ldoc \in ResolverDocs
    /\ lpc = "start" /\ ltoks = <<>> /\ lcur = Null /\ lret = NoRet
    /\ llog = <<>> /\ ltr = NoRet
    /\ TransformIdle /\ KeyIdle

\* 85-106: the string test, the hard-coded value, the path tokens
LeafBegin ==
    /\ lpc = "start"
    /\ IF ~IsStr(lnode)
       THEN lpc' = "done" /\ lret' = Fail("MalformedTemplate", <<>>)
            /\ UNCHANGED <<ltoks, lcur>>
       ELSE IF IsLiteral(lnode[2])
       THEN lpc' = "done" /\ lret' = Ok(LiteralValue(lnode[2]))
            /\ UNCHANGED <<ltoks, lcur>>
       ELSE lpc' = "resolve" /\ ltoks' = PathTokens(lnode[2]) /\ lcur' = ldoc
            /\ lret' = lret
    /\ UNCHANGED <<lnode, ldoc, llog, ltr, tvars, kvars>>

\* 118-153 with a segment popped: one call of resolve_output_field_value
ResolveStep ==
    /\ lpc = "resolve" /\ ltoks # <<>>
    /\ llog' = Append(llog, <<Head(ltoks), lcur>>)
    /\ ltoks' = Tail(ltoks)
    /\ LET r == ResolveOne(lcur, Head(ltoks))
       IN  IF r.kind = "next" THEN lcur' = r.v /\ lpc' = lpc /\ lret' = lret
           ELSE IF r.kind = "ret" THEN lcur' = lcur /\ lpc' = "done" /\ lret' = Ok(r.v)
           ELSE lcur' = lcur /\ lpc' = "done"
                /\ lret' = [ok |-> FALSE, v |-> Null, err |-> r.err]
    /\ UNCHANGED <<lnode, ldoc, ltr, tvars, kvars>>

\* 118-121: no segment left
ResolveReturn ==
    /\ lpc = "resolve" /\ ltoks = <<>>
    /\ lret' = Ok(lcur) /\ lpc' = "done"
    /\ UNCHANGED <<lnode, ldoc, ltoks, lcur, llog, ltr, tvars, kvars>>

\* the leaf inside a template: transform(ldoc, [{"x": lnode}])
LeafSurface ==
    /\ lpc = "done"
    /\ ltr' = transform(ldoc, Arr(<<O1(kX, lnode)>>))
    /\ lpc' = "surfaced"
    /\ UNCHANGED <<lnode, ldoc, ltoks, lcur, lret, llog, tvars, kvars>>

NextLeaf == LeafBegin \/ ResolveStep \/ ResolveReturn \/ LeafSurface

SpecLeaf == InitLeaf /\ [][NextLeaf]_vars

-----------------------------------------------------------------------------
(* Specification of clean_key (transformer.rs 6-24) on every key over the  *)
(* marker characters and one letter.                                       *)

KeyChars == {"[", "]", ".", "k"}

KeyStrings == UNION { [1..n -> KeyChars] : n \in 0..MaxKeyLen }

InitKey ==
    /\ kkey \in KeyStrings
    /\ kpc = "start" /\ kout1 = NoRet /\ kout2 = NoRet
    /\ TransformIdle /\ LeafIdle

\* clean_key(k)
CleanOnce ==
    /\ kpc = "start"
    /\ kout1' = clean_key(kkey) /\ kpc' = "once"
    /\ UNCHANGED <<kkey, kout2, tvars, lvars>>

\* clean_key(clean_key(k)), when the first application succeeded
CleanTwice ==
    /\ kpc = "once" /\ kout1.ok
    /\ kout2' = clean_key(kout1.v) /\ kpc' = "twice"
    /\ UNCHANGED <<kkey, kout1, tvars, lvars>>

NextKey == CleanOnce \/ CleanTwice

SpecKey == InitKey /\ [][NextKey]_vars

-----------------------------------------------------------------------------
(* Properties of transform, under Spec *)

\* a key carrying a marker: wrapped in brackets, or holding three dots
Decorated(key) ==
    \/ Len(key) >= 1 /\ key[1] = "[" /\ key[Len(key)] = "]"
    \/ \E i \in 1..(Len(key) - 2) : key[i] = "." /\ key[i + 1] = "." /\ key[i + 2] = "."

RECURSIVE Plain(_)
\* no key of the node carries a marker
Plain(node) ==
    IsObj(node) =>
        \A i \in 1..Len(node[2]) : ~Decorated(node[2][i][1]) /\ Plain(node[2][i][2])

RECURSIVE Resolved(_, _, _)
\* out has the shape of entry, each leaf replaced by its resolved value
Resolved(doc, entry, out) ==
    IF IsObj(entry)
    THEN /\ IsObj(out) /\ Len(out[2]) = Len(entry[2])
         /\ \A i \in 1..Len(entry[2]) :
                /\ HasKey(out[2], entry[2][i][1])
                /\ Resolved(doc, entry[2][i][2], MapGet(out[2], entry[2][i][1]))
    ELSE SubstLeaf(doc, entry).ok /\ out = SubstLeaf(doc, entry).v

\* the template [{"r": {"x": "/ids"}}] and its result on {"ids": ["a","b","c"]}
LiteralTemplate == Arr(<<O1(kR, O1(kX, lIds))>>)
LiteralResult ==
    Arr(<<O1(kR, O1(kX, Arr(<<Str(<<"a">>), Str(<<"b">>), Str(<<"c">>)>>)))>>)

\* the empty template and the literal scenario
C2_Scenarios ==
    /\ (pc = "done" /\ template = Arr(<<>>)) => ret = Ok(Arr(<<>>))
    /\ (pc = "done" /\ input = IdsDoc(3) /\ template = LiteralTemplate)
           => ret = Ok(LiteralResult)

\* C2 (amended): a successful transform returns an array with one element
\* per template entry, in template order; each element whose entry has no
\* decorated key has the shape of the entry with every leaf replaced by its
\* resolved value; the empty template yields the empty array and the literal
\* scenario yields [{"r": {"x": ["a","b","c"]}}].
C2_ArrayPerEntry ==
    /\ (pc = "done" /\ ret.ok) =>
           /\ IsArr(ret.v) /\ Len(ret.v[2]) = Len(template[2])
           /\ \A i \in 1..Len(template[2]) :
                  Plain(template[2][i]) => Resolved(input, template[2][i], ret.v[2][i])
    /\ C2_Scenarios

\* two different undecorated entries, both resolved
C2_Witness ==
    /\ pc = "done" /\ ret.ok /\ Len(template[2]) = 2
    /\ template[2][1] # template[2][2]
    /\ Plain(template[2][1]) /\ Plain(template[2][2])
    /\ Len(input[2]) = 1 /\ Len(MapGet(input[2], kIds)[2]) = 3

\* C2 as claimed: every element has the shape of its entry, decorated or not
C2_Original ==
    /\ (pc = "done" /\ ret.ok) =>
           /\ IsArr(ret.v) /\ Len(ret.v[2]) = Len(template[2])
           /\ \A i \in 1..Len(template[2]) :
                  Resolved(input, template[2][i], ret.v[2][i])
    /\ C2_Scenarios

\* the template [{"[r]": {"...x": "/ids", "y": "'z'"}}]
SplitTemplate == Arr(<<O1(kConvR, O2(kSpreadX, lIds, kY, lZ))>>)

\* {"r": [{"x": "a", "y": "z"}, {"x": "b", "y": "z"}]}
SplitObject ==
    O1(kR, Arr(<<O2(kX, Str(<<"a">>), kY, Str(<<"z">>)),
                 O2(kX, Str(<<"b">>), kY, Str(<<"z">>))>>))

RECURSIVE HasSpreadBelow(_)
\* some descendant field of the object is a spread-array field
HasSpreadBelow(node) ==
    /\ IsObj(node)
    /\ \E i \in 1..Len(node[2]) :
           \/ ~IsObj(node[2][i][2]) /\ is_to_be_spread_array(node[2][i][1])
           \/ HasSpreadBelow(node[2][i][2])

RECURSIVE BareConvKey(_, _)
\* key names an array-convertible object of the node that has no
\* spread-array field among its descendants
BareConvKey(node, key) ==
    /\ IsObj(node)
    /\ \E i \in 1..Len(node[2]) :
           \/ /\ node[2][i][1] = key
              /\ is_obj_to_be_converted_to_array(key)
              /\ IsObj(node[2][i][2]) /\ ~HasSpreadBelow(node[2][i][2])
           \/ BareConvKey(node[2][i][2], key)

RECURSIVE KeysOf(_)
\* every key of the node, at any depth
KeysOf(node) ==
    IF IsObj(node)
    THEN { node[2][i][1] : i \in 1..Len(node[2]) }
             \cup UNION { KeysOf(node[2][i][2]) : i \in 1..Len(node[2]) }
    ELSE {}

\* C4: an entry holding an array-convertible object without a spread-array
\* field among its descendants makes transform fail with MissingSpreadArray
\* naming that key, whatever else the entry holds (stated for the entries
\* whose leaves all resolve).
C4_MissingSpreadArray ==
    (/\ pc \in {"push", "done"} /\ idx >= 1
     /\ \E k \in KeysOf(template[2][idx]) : BareConvKey(template[2][idx], k)
     /\ traverse_mut(input, template[2][idx]).ok) =>
        /\ pc = "done" /\ ~ret.ok
        /\ ret.err.kind = "MissingSpreadArray"
        /\ BareConvKey(template[2][idx], ret.err.name)

RECURSIVE SiteOf(_, _)
\* the array-convertible object an entry reaches through objects of one
\* undecorated key: [found, path, key, body]
SiteOf(node, path) ==
    IF IsObj(node) /\ Len(node[2]) = 1
    THEN IF is_obj_to_be_converted_to_array(node[2][1][1])
         THEN [found |-> IsObj(node[2][1][2]), path |-> path,
               key |-> node[2][1][1], body |-> node[2][1][2]]
         ELSE IF Decorated(node[2][1][1])
         THEN [found |-> FALSE, path |-> path, key |-> <<>>, body |-> Null]
         ELSE SiteOf(node[2][1][2], path \o <<"/">> \o node[2][1][1])
    ELSE [found |-> FALSE, path |-> path, key |-> <<>>, body |-> Null]

\* `name` of the key `[name]`
BracketName(key) == SubSeq(key, 2, Len(key) - 1)

\* `f` of the key `...f`
SpreadName(key) == SubSeq(key, 4, Len(key))

RECURSIVE SpreadFields(_, _)
\* the spread fields beneath a node, through undecorated keys:
\* pairs <<location with cleaned keys, template leaf>>
SpreadFields(node, path) ==
    IF ~IsObj(node) THEN {}
    ELSE UNION { LET key == node[2][i][1]
                     val == node[2][i][2]
                 IN  IF IsObj(val)
                     THEN IF Decorated(key) THEN {}
                          ELSE SpreadFields(val, path \o <<"/">> \o key)
                     ELSE IF Len(key) > 3 /\ SubSeq(key, 1, 3) = <<".", ".", ".">>
                          THEN { <<path \o <<"/">> \o SpreadName(key), val>> }
                          ELSE {}
               : i \in 1..Len(node[2]) }

\* the node holds no other decorated key than the spread fields counted above
OnlySpreadFields(node) ==
    \A k \in KeysOf(node) :
        Decorated(k) => Len(k) > 3 /\ SubSeq(k, 1, 3) = <<".", ".", ".">> /\ ~Decorated(SpreadName(k))

\* the elements of the array the site became hold, at the location loc, the
\* elements of the array arr
SpreadOver(elems, loc, arr) ==
    \A i \in 1..Len(elems) :
        Pointer(elems[i], loc).ok /\ Pointer(elems[i], loc).v = arr[2][i]

\* C1: an array-convertible object with exactly one spread field beneath it,
\* resolving to an array of length N, is replaced on success by an array of N
\* elements under the cleaned key; element i holds the i-th element of the
\* resolved array at the spread field's location, and the elements agree on
\* everything else (stated for a single-entry template whose object is met
\* through undecorated keys).
C1_SplitCorrectness ==
    (/\ pc = "done" /\ ret.ok /\ Len(template[2]) = 1
     /\ SiteOf(template[2][1], <<>>).found
     /\ OnlySpreadFields(SiteOf(template[2][1], <<>>).body)
     /\ Cardinality(SpreadFields(SiteOf(template[2][1], <<>>).body, <<>>)) = 1) =>
        LET site == SiteOf(template[2][1], <<>>)
            field == CHOOSE f \in SpreadFields(site.body, <<>>) : TRUE
            arr == SubstLeaf(input, field[2]).v
            got == Pointer(ret.v[2][1], site.path \o <<"/">> \o BracketName(site.key))
        IN  IsArr(arr) =>
                /\ got.ok /\ IsArr(got.v) /\ Len(got.v[2]) = Len(arr[2])
                /\ SpreadOver(got.v[2], field[1], arr)
                /\ \A i, j \in 1..Len(got.v[2]) :
                       PointerSet(got.v[2][i], field[1], Null).v
                           = PointerSet(got.v[2][j], field[1], Null).v

\* C8: an array-convertible object with two spread fields beneath it that
\* resolve to arrays of the same length N becomes an array of N elements;
\* element i holds the i-th element of each array at that field's location
\* (stated for a single-entry template whose object is met through
\* undecorated keys and whose leaves all resolve).
C8_MultiSpreadAgreement ==
    (/\ pc = "done" /\ idx = 1 /\ Len(template[2]) = 1
     /\ SiteOf(template[2][1], <<>>).found
     /\ OnlySpreadFields(SiteOf(template[2][1], <<>>).body)
     /\ Cardinality(SpreadFields(SiteOf(template[2][1], <<>>).body, <<>>)) = 2
     /\ traverse_mut(input, template[2][1]).ok) =>
        LET site == SiteOf(template[2][1], <<>>)
            fields == SpreadFields(site.body, <<>>)
        IN  (\E n \in 0..(MaxLen + 1) : \A f \in fields :
                 IsArr(SubstLeaf(input, f[2]).v) /\ Len(SubstLeaf(input, f[2]).v[2]) = n) =>
                /\ ret.ok
                /\ LET got == Pointer(ret.v[2][1],
                                      site.path \o <<"/">> \o BracketName(site.key))
                   IN  /\ got.ok /\ IsArr(got.v)
                       /\ \A f \in fields :
                              /\ Len(got.v[2]) = Len(SubstLeaf(input, f[2]).v[2])
                              /\ SpreadOver(got.v[2], f[1], SubstLeaf(input, f[2]).v)

\* the errors of lib.rs 324-341
NotObjectAt(i) == ~IsObj(template[2][i])
NoNameAt(i) == IsObj(template[2][i]) /\ template[2][i][2] = <<>>

\* C9 (amended): transform returns "output should be in an array of object
\* structure" when the template is not an array; when an element is not an
\* object, or is an object without keys, transform returns no result, and
\* the error is the structural error of the first such element provided
\* every element before it was transformed without error.
C9_StructuralErrors ==
    pc = "done" =>
        IF ~IsArr(template) THEN ret = Fail("OutputNotArray", <<>>)
        ELSE \A i \in 1..Len(template[2]) :
                 /\ (NotObjectAt(i) \/ NoNameAt(i)) => ~ret.ok
                 /\ (NotObjectAt(i) /\ Len(result) = i - 1)
                        => ret = Fail("ElementNotObject", <<>>)
                 /\ (NoNameAt(i) /\ Len(result) = i - 1)
                        => ret = Fail("ElementNoName", <<>>)

\* an element without keys after an element that was transformed
C9_Witness ==
    /\ pc = "done" /\ IsArr(template) /\ Len(template[2]) = 2
    /\ Len(result) = 1 /\ NoNameAt(2)
    /\ ret = Fail("ElementNoName", <<>>)

\* C9 as claimed: a structural error in each of the three cases
C9_Original ==
    pc = "done" =>
        IF ~IsArr(template) THEN ret = Fail("OutputNotArray", <<>>)
        ELSE \A i \in 1..Len(template[2]) :
                 (NotObjectAt(i) \/ NoNameAt(i)) =>
                     /\ ~ret.ok
                     /\ ret.err.kind \in {"ElementNotObject", "ElementNoName"}

\* the entry being processed, and what became of it once it was walked
EntryAt == template[2][idx]
EntryOut == IF pc = "push" THEN cur ELSE result[idx]

\* the entry was checked, and either walked or refused
EntryEnded == pc \in {"push", "done"} /\ idx >= 1 /\ IsObj(EntryAt)

RECURSIVE LeavesOf(_)
RECURSIVE LeavesOfKids(_)
\* the leaves of a node in the order the substitution pass meets them
LeavesOf(node) == IF IsObj(node) THEN LeavesOfKids(node[2]) ELSE <<node>>
LeavesOfKids(kids) ==
    IF kids = <<>> THEN <<>> ELSE LeavesOf(Head(kids)[2]) \o LeavesOfKids(Tail(kids))

\* leaf n of the entry is neither an object nor a string, and every leaf
\* before it is a string that resolves
ReachesNonString(leaves, n) ==
    /\ ~IsStr(leaves[n])
    /\ \A m \in 1..(n - 1) : IsStr(leaves[m]) /\ SubstLeaf(input, leaves[m]).ok

\* C12: when the substitution pass reaches a node that is neither an object
\* nor a string, at any depth, it fails with MalformedTemplate and transform
\* returns that error.
C12_MalformedTemplate ==
    (/\ pc \in {"walk", "push", "done"} /\ idx >= 1
     /\ IsObj(EntryAt) /\ EntryAt[2] # <<>>) =>
        \A n \in 1..Len(LeavesOf(EntryAt)) :
            ReachesNonString(LeavesOf(EntryAt), n) =>
                pc = "done" /\ ret = Fail("MalformedTemplate", <<>>)

\* an array leaf three levels down, met after a leaf that resolved
C12_Witness ==
    /\ pc = "done" /\ idx = 1 /\ IsObj(EntryAt)
    /\ Len(LeavesOf(EntryAt)) = 2
    /\ IsArr(LeavesOf(EntryAt)[2]) /\ ReachesNonString(LeavesOf(EntryAt), 2)
    /\ Len(EntryAt[2]) = 1 /\ IsObj(EntryAt[2][1][2]) /\ Len(EntryAt[2][1][2][2]) = 1
    /\ ret.err.kind = "MalformedTemplate"

RECURSIVE ConvBodies(_)
\* the array-convertible objects of a node, at any depth
ConvBodies(node) ==
    IF ~IsObj(node) THEN {}
    ELSE UNION { (IF is_obj_to_be_converted_to_array(node[2][i][1]) /\ IsObj(node[2][i][2])
                  THEN {node[2][i][2]} ELSE {})
                     \cup ConvBodies(node[2][i][2])
               : i \in 1..Len(node[2]) }

\* every spread field of the entry lies beneath an array-convertible object,
\* and every array-convertible object has exactly one spread field of its
\* own (not inside a nested array-convertible object), resolving to an array
OneSpreadEach(entry) ==
    /\ SpreadFields(entry, <<>>) = {}
    /\ \A k \in KeysOf(entry) : is_to_be_spread_array(k) => Len(k) > 3
    /\ \A body \in ConvBodies(entry) :
           /\ Cardinality(SpreadFields(body, <<>>)) = 1
           /\ \A f \in SpreadFields(body, <<>>) : IsArr(SubstLeaf(input, f[2]).v)

\* C13 (amended): for an entry processed successfully in which every spread
\* field lies beneath an array-convertible object and every array-convertible
\* object has exactly one spread field of its own, resolving to an array,
\* both stacks are empty at the end of the walk.
C13_StacksDrained ==
    (pc = "push" /\ OneSpreadEach(EntryAt)) => visited = <<>> /\ array_lens = <<>>

\* an object split inside an object that is split
C13_Witness ==
    /\ pc = "push" /\ OneSpreadEach(EntryAt)
    /\ Cardinality(ConvBodies(EntryAt)) = 2
    /\ input = RichDoc(2)
    /\ visited = <<>> /\ array_lens = <<>>

\* C13 as claimed: the stacks are empty after every successful walk
C13_Original == pc = "push" => visited = <<>> /\ array_lens = <<>>

\* the key a spread key is renamed to
SpreadCleaned(key) == IF StartsWith(key, <<".", ".", ".">>) THEN SpreadName(key) ELSE key

RECURSIVE RenameImage(_, _)
\* out is the substituted node with every spread key renamed to its cleaned
\* form: the cleaned key holds the value, the decorated key is gone, and
\* every other field is where it was
RenameImage(node, out) ==
    IF ~IsObj(node) THEN out = SubstLeaf(input, node).v
    ELSE /\ IsObj(out)
         /\ \A i \in 1..Len(node[2]) :
                /\ HasKey(out[2], SpreadCleaned(node[2][i][1]))
                /\ RenameImage(node[2][i][2], MapGet(out[2], SpreadCleaned(node[2][i][1])))
                /\ is_to_be_spread_array(node[2][i][1]) => ~HasKey(out[2], node[2][i][1])

RECURSIVE SpreadLeavesOnly(_)
\* every decorated key of the node holds a leaf, so each one is renamed
SpreadLeavesOnly(node) ==
    IsObj(node) =>
        \A i \in 1..Len(node[2]) :
            IsObj(node[2][i][2]) =>
                ~Decorated(node[2][i][1]) /\ SpreadLeavesOnly(node[2][i][2])

\* C15: the rename of a spread key leaves the cleaned key holding the value
\* the decorated key held, removes the decorated key, and leaves every other
\* field of the parent object unchanged (stated for the entries that hold no
\* array-convertible object and whose spread keys all hold leaves, so that
\* every spread key is renamed and nothing but renames changes the output).
C15_RenamePreserves ==
    (/\ pc = "push" /\ IsObj(EntryAt) /\ SpreadLeavesOnly(EntryAt)
     /\ ~\E k \in KeysOf(EntryAt) : is_obj_to_be_converted_to_array(k)) =>
        RenameImage(EntryAt, cur)

\* C16: an element of the template that passes the check of transform and
\* is handed to the two passes is an Object with exactly one top-level key.
C16_ExactlyOneKey ==
    (pc \in {"subst", "walk", "push"}) => IsObj(EntryAt) /\ Len(EntryAt[2]) = 1

\* the lengths of the spread arrays of an array-convertible object: those
\* beneath it and not inside a nested array-convertible object
OwnLengths(body) ==
    { Len(SubstLeaf(input, f[2]).v[2]) :
          f \in { g \in SpreadFields(body, <<>>) : IsArr(SubstLeaf(input, g[2]).v) } }

\* the array-convertible object the entry reaches through undecorated keys
Site == SiteOf(EntryAt, <<>>)

\* the cleaned path of the object of Site, the parent path of its split
SitePath == Site.path \o <<"/">> \o BracketName(Site.key)

\* the value the walk left where the object of Site was
SiteOut == Pointer(cur, SitePath)

\* C17: an array-convertible object is split into as many copies as the
\* length of one of its own spread arrays, also when array-convertible
\* objects with spread fields of their own are nested inside it (stated for
\* the outermost array-convertible object of an entry, when it has a spread
\* array of its own).
C17_OwnLength ==
    (pc = "push" /\ IsObj(EntryAt) /\ Site.found /\ OwnLengths(Site.body) # {}) =>
        /\ SiteOut.ok /\ IsArr(SiteOut.v)
        /\ Len(SiteOut.v[2]) \in OwnLengths(Site.body)

\* C18: for every spread field of the object being split, the relative path
\* computed from the popped path is the popped path without the object's own
\* path in front, that is the location of the field inside a copy, and the
\* split does not fail to locate it, whatever the keys of the ancestors are.
C18_RelativeIsSuffix ==
    (/\ pc \in {"push", "done"} /\ idx >= 1 /\ IsObj(EntryAt) /\ Site.found
     /\ traverse_mut(input, EntryAt).ok) =>
        /\ \A f \in SpreadFields(Site.body, <<>>) :
               /\ RelativePath(SitePath \o f[1], BracketName(Site.key)).ok
               /\ RelativePath(SitePath \o f[1], BracketName(Site.key)).after = f[1]
        /\ pc = "done" => ret.err.kind # "SplitPathMismatch"

\* transform on the template holding the i-th entry alone
Alone(i) == transform(input, Arr(<<template[2][i]>>))

\* C19: transform on [t1, ..., tn] succeeds iff transform succeeds on each
\* [ti], and then its i-th element is the sole element of the result for
\* [ti]: what an entry leaves on the stacks does not reach the next entry.
C19_EntriesIndependent ==
    (pc = "done" /\ IsArr(template)) =>
        /\ ret.ok <=> \A i \in 1..Len(template[2]) : Alone(i).ok
        /\ ret.ok => /\ Len(ret.v[2]) = Len(template[2])
                     /\ \A i \in 1..Len(template[2]) : ret.v[2][i] = Alone(i).v[2][1]

\* a first entry that leaves a length on its stack, followed by an entry
\* holding an array-convertible object
C19_Witness ==
    /\ pc = "done" /\ ret.ok /\ IsArr(template) /\ Len(template[2]) = 2
    /\ WalkEntry(traverse_mut(input, template[2][1]).v).lens # <<>>
    /\ \E k \in KeysOf(template[2][2]) : is_obj_to_be_converted_to_array(k)
    /\ IsArr(ret.v[2][2][2][1][2]) /\ Len(ret.v[2][2][2][1][2][2]) >= 2

RECURSIVE AllKeys(_)
\* every object key of a value, through objects and arrays
AllKeys(x) ==
    IF IsObj(x)
    THEN { x[2][i][1] : i \in 1..Len(x[2]) } \cup UNION { AllKeys(x[2][i][2]) : i \in 1..Len(x[2]) }
    ELSE IF IsArr(x) THEN UNION { AllKeys(x[2][i]) : i \in 1..Len(x[2]) }
    ELSE {}

\* C20: after a successful transform no key of the result, at any depth, is
\* array-convertible or spread.
C20_NoDecoratedKey ==
    (pc = "done" /\ ret.ok) => \A k \in AllKeys(ret.v) : ~Decorated(k)

-----------------------------------------------------------------------------
(* Properties of leaf resolution, under SpecLeaf *)

LeafDone == lpc \in {"done", "surfaced"}

\* the subtree lacks the segment: an object without that key, or an array
\* with an element that is not an object holding that key
Missing(node, seg) ==
    \/ IsObj(node) /\ \A i \in 1..Len(node[2]) : node[2][i][1] # seg
    \/ IsArr(node) /\ \E i \in 1..Len(node[2]) :
           \/ ~IsObj(node[2][i])
           \/ \A j \in 1..Len(node[2][i][2]) : node[2][i][2][j][1] # seg

\* C5: a segment consumed on a subtree that lacks it (an object without the
\* key, an array with an element without it) ends the resolution with
\* FieldNotFound naming that segment, and transform returns the same error;
\* it is the last segment consumed, so every segment before it was found.
C5_FieldNotFound ==
    \A n \in 1..Len(llog) :
        Missing(llog[n][2], llog[n][1]) =>
            /\ n = Len(llog)
            /\ LeafDone
            /\ lret = Fail("FieldNotFound", llog[n][1])
            /\ lpc = "surfaced" => ltr = Fail("FieldNotFound", llog[n][1])

\* the third segment of /a/b/c is missing in an element of the flattened array
C5_Witness ==
    /\ lpc = "surfaced" /\ Len(llog) = 3
    /\ IsArr(llog[3][2]) /\ Len(llog[3][2][2]) >= 2
    /\ Missing(llog[3][2], llog[3][1])
    /\ ltr.err = Err("FieldNotFound", kC)

\* doc is {"a": [{"b": [{"c": non-array}, ...]}, ...]}
IsNestedDoc(doc) ==
    /\ IsObj(doc) /\ HasKey(doc[2], kA) /\ IsArr(MapGet(doc[2], kA))
    /\ \A i \in 1..Len(MapGet(doc[2], kA)[2]) :
           LET e == MapGet(doc[2], kA)[2][i]
           IN  /\ IsObj(e) /\ HasKey(e[2], kB) /\ IsArr(MapGet(e[2], kB))
               /\ \A j \in 1..Len(MapGet(e[2], kB)[2]) :
                      LET f == MapGet(e[2], kB)[2][j]
                      IN  IsObj(f) /\ HasKey(f[2], kC) /\ ~IsArr(MapGet(f[2], kC))

\* the array b of element i of a
InnerOf(doc, i) == MapGet(MapGet(doc[2], kA)[2][i][2], kB)[2]

RECURSIVE Offset(_, _)
\* the number of b-elements before element i of a
Offset(doc, i) == IF i = 1 THEN 0 ELSE Offset(doc, i - 1) + Len(InnerOf(doc, i - 1))

\* C6: resolving /a/b/c on an array of objects whose b is an array of
\* objects with a non-array c yields one flat array, as long as all the
\* b-arrays together, holding the c values in document order.
C6_ResolverFlattening ==
    (LeafDone /\ lnode = lABC /\ IsNestedDoc(ldoc)) =>
        LET n == Len(MapGet(ldoc[2], kA)[2])
        IN  /\ lret.ok /\ IsArr(lret.v)
            /\ Len(lret.v[2]) = Offset(ldoc, n + 1)
            /\ \A i \in 1..n : \A j \in 1..Len(InnerOf(ldoc, i)) :
                   lret.v[2][Offset(ldoc, i) + j] = MapGet(InnerOf(ldoc, i)[j][2], kC)
            /\ \A m \in 1..Len(lret.v[2]) : ~IsArr(lret.v[2][m])

\* two outer elements whose inner arrays are both non-empty
C6_Witness ==
    /\ lpc = "done" /\ lnode = lABC /\ IsNestedDoc(ldoc)
    /\ Len(MapGet(ldoc[2], kA)[2]) >= 2
    /\ Len(InnerOf(ldoc, 1)) >= 2 /\ Len(InnerOf(ldoc, 2)) >= 1
    /\ lret.ok /\ Len(lret.v[2]) >= 3

\* the number of quote characters of s before position p
QuotesBefore(s, p) == Cardinality({ q \in 1..(p - 1) : s[q] = "'" })

\* r is s without its quote characters
Unquoted(s, r) ==
    /\ Len(r) = Len(s) - QuotesBefore(s, Len(s) + 1)
    /\ \A p \in 1..Len(s) : s[p] # "'" => r[p - QuotesBefore(s, p)] = s[p]

\* C7: a leaf string that starts and ends with a quote is replaced by the
\* string without any of its quotes, whatever the input document: no segment
\* is consumed, and transform returns the same value.
C7_LiteralPassthrough ==
    (/\ LeafDone /\ IsStr(lnode) /\ Len(lnode[2]) >= 1
     /\ lnode[2][1] = "'" /\ lnode[2][Len(lnode[2])] = "'") =>
        /\ lret.ok /\ IsStr(lret.v) /\ Unquoted(lnode[2], lret.v[2])
        /\ llog = <<>>
        /\ lpc = "surfaced" => ltr = Ok(Arr(<<O1(kX, lret.v)>>))

\* a literal with a quote in the middle, on a document with elements
C7_Witness ==
    /\ lpc = "surfaced" /\ lnode = lQQ
    /\ Len(MapGet(ldoc[2], kA)[2]) >= 1
    /\ ltr = Ok(Arr(<<O1(kX, Str(<<"q", "q">>))>>))

-----------------------------------------------------------------------------
(* Properties of clean_key, under SpecKey *)

\* C10: clean_key applied to its own result changes nothing:
\* clean_key(clean_key(k)) = clean_key(k) for every key k it accepts.
C10_CleanKeyIdempotent == kpc = "twice" => kout2 = kout1

\* a key with an opening bracket and no closing one, or the reverse
Unbalanced(key) == StartsWith(key, <<"[">>) # EndsWith(key, <<"]">>)

\* C14: clean_key fails with MalformedKey on a key whose brackets are
\* unbalanced, such as "[order" or "order]".
C14_UnbalancedKeyFails ==
    (kpc # "start" /\ kpc # "idle" /\ Unbalanced(kkey)) =>
        ~kout1.ok /\ kout1.err.kind = "MalformedKey"

====
